---- MODULE Spec2Model ----
(***************************************************************************)
(* Model of littleeye (src/src/littleeye/__init__.py): a structural        *)
(* summary of a Python value as a string.                                  *)
(*                                                                         *)
(* Python values are records tagged by "kind".  A returned string is a     *)
(* TLA+ string, pieces concatenated as the f-strings concatenate them;     *)
(* the line separator is "\n".  The box-drawing connector U+2514 U+2500    *)
(* followed by a space is written in ASCII as "+- " (same length).         *)
(***************************************************************************)
EXTENDS Integers, Sequences, FiniteSets, TLC

VARIABLES NUMPY_AVAILABLE, obj, max_depth, _current_depth, pc, analyzer, result

vars == <<NUMPY_AVAILABLE, obj, max_depth, _current_depth, pc, analyzer, result>>

(***************************************************************************)
(* Bounds of the model.                                                    *)
(***************************************************************************)
\* largest max_depth / _current_depth argument tried (smallest is -1)
MaxDepth == 2
\* most children of a container built over the full child universe
MaxLen == 2
\* most children of a container built over the small tally universe
MaxItems == 5
\* most arrays in a container of arrays
MaxArrays == 3
\* most keys of a dict in the key-pattern family
MaxKeys == 3
\* integer keys range over -1 .. MaxKey
MaxKey == 4
\* most keys of a dict with string keys only
MaxStrKeys == 6
\* longest axis of a 1-d array
MaxDim == 3
\* most children of a nested container in the size family
MaxSize == 3

(***************************************************************************)
(* Program constants.                                                      *)
(***************************************************************************)
\* _analyze_primitive: strings longer than this are reported by length only
MaxShownStrLen == 50
\* _analyze_dict_keys: up to this many string keys are all listed
MaxListedKeys == 5
\* _analyze_dict_keys: number of keys shown when there are more
ShownKeys == 3

Connector == "+- "
Indent == "   "

(***************************************************************************)
(* Python values.                                                          *)
(***************************************************************************)
PyInt(n) == [kind |-> "int", n |-> n]
PyBool(b) == [kind |-> "bool", b |-> b]
PyFloat(r) == [kind |-> "float", repr |-> r]
PyStr(s) == [kind |-> "str", s |-> s]
PyOther(t) == [kind |-> "other", tname |-> t]
NdArray(shape, dtype) == [kind |-> "ndarray", shape |-> shape, dtype |-> dtype]
PyList(items) == [kind |-> "list", items |-> items]
PyTuple(items) == [kind |-> "tuple", items |-> items]
PyDict(keys, items) == [kind |-> "dict", keys |-> keys, items |-> items]

\* type(obj).__name__
TypeName(v) == IF v.kind = "other" THEN v.tname ELSE v.kind

\* isinstance(obj, cls) for the classes the code tests
IsNdArray(v) == v.kind = "ndarray"
IsList(v) == v.kind = "list"
IsTuple(v) == v.kind = "tuple"
IsDict(v) == v.kind = "dict"
\* bool is a subclass of int
IsInt(v) == v.kind \in {"int", "bool"}
IsStr(v) == v.kind = "str"
\* variant: float left out of the isinstance tuple
IsPrimitive_NoFloat(v) == v.kind \in {"int", "str", "bool"}
IsPrimitive(v) == v.kind \in {"int", "float", "str", "bool"}

\* len(obj) of a list, tuple or dict
PyLen(v) == Len(v.items)

\* str(obj) of a non-string primitive, as an f-string field formats it
PyStrOf(v) ==
    CASE v.kind = "int" -> ToString(v.n)
      [] v.kind = "bool" -> IF v.b THEN "True" ELSE "False"
      [] v.kind = "float" -> v.repr
      [] OTHER -> v.s

\* repr(k) of a string key
PyRepr(k) == "'" \o k.s \o "'"

\* the integer value of an int or bool (True is 1, False is 0)
IntVal(k) == IF k.kind = "bool" THEN (IF k.b THEN 1 ELSE 0) ELSE k.n

\* sep.join(strs)
RECURSIVE Join(_, _)
Join(strs, sep) ==
    IF strs = <<>> THEN ""
    ELSE IF Len(strs) = 1 THEN strs[1]
    ELSE strs[1] \o sep \o Join(Tail(strs), sep)

\* variant: the plural is used for every length
Plural_Always(length) == "s"

\* the 's' of f"element{'s' if length != 1 else ''}"
Plural(length) == IF length # 1 THEN "s" ELSE ""

(***************************************************************************)
(* collections.Counter: a dict from label to count, kept in the order in   *)
(* which the labels were first inserted; here a sequence of                *)
(* <<label, count>> pairs in that order.                                   *)
(***************************************************************************)
RECURSIVE FirstSeen(_)
FirstSeen(labels) ==
    IF labels = <<>> THEN <<>>
    ELSE LET front == SubSeq(labels, 1, Len(labels) - 1)
             last == labels[Len(labels)]
             seen == FirstSeen(front)
         IN IF \E i \in DOMAIN front : front[i] = last THEN seen
            ELSE Append(seen, last)

Counter(labels) ==
    LET keys == FirstSeen(labels)
    IN [i \in DOMAIN keys |->
          <<keys[i], Cardinality({j \in DOMAIN labels : labels[j] = keys[i]})>>]

\* variant: e goes before the entries of equal count (ties not kept in order)
RECURSIVE InsertByCount_Unstable(_, _)
InsertByCount_Unstable(sorted, e) ==
    IF sorted = <<>> THEN <<e>>
    ELSE IF sorted[1][2] > e[2]
    THEN <<sorted[1]>> \o InsertByCount_Unstable(Tail(sorted), e)
    ELSE <<e>> \o sorted

\* one step of the stable descending sort: e goes after every entry whose
\* count is at least its own
RECURSIVE InsertByCount(_, _)
InsertByCount(sorted, e) ==
    IF sorted = <<>> THEN <<e>>
    ELSE IF sorted[1][2] >= e[2] THEN <<sorted[1]>> \o InsertByCount(Tail(sorted), e)
    ELSE <<e>> \o sorted

\* Counter.most_common(): sorted(items, key=count, reverse=True), a stable sort
RECURSIVE most_common(_)
most_common(type_counts) ==
    IF type_counts = <<>> THEN <<>>
    ELSE InsertByCount(most_common(SubSeq(type_counts, 1, Len(type_counts) - 1)),
                       type_counts[Len(type_counts)])

\* min(...) and max(...) of a non-empty sequence of integers
Min(ns) == CHOOSE m \in {ns[i] : i \in DOMAIN ns} : \A i \in DOMAIN ns : m <= ns[i]
Max(ns) == CHOOSE m \in {ns[i] : i \in DOMAIN ns} : \A i \in DOMAIN ns : m >= ns[i]

\* sorted(key_list) of integer keys, ascending by value (insertion sort)
RECURSIVE InsertKey(_, _)
InsertKey(sorted, k) ==
    IF sorted = <<>> THEN <<k>>
    ELSE IF IntVal(sorted[1]) <= IntVal(k) THEN <<sorted[1]>> \o InsertKey(Tail(sorted), k)
    ELSE <<k>> \o sorted

\* variant: the keys are taken in insertion order
Sorted_Unsorted(key_list) == key_list

RECURSIVE Sorted(_)
Sorted(key_list) ==
    IF key_list = <<>> THEN <<>>
    ELSE InsertKey(Sorted(SubSeq(key_list, 1, Len(key_list) - 1)), key_list[Len(key_list)])

(***************************************************************************)
(* The helpers of littleeye.                                               *)
(***************************************************************************)
\* variant: emptiness is not part of the label
_get_simplified_type_description_NoEmpty(v) ==
    IF IsList(v) THEN "list"
    ELSE IF IsDict(v) THEN "dict"
    ELSE IF IsTuple(v) THEN "tuple"
    ELSE IF NUMPY_AVAILABLE /\ IsNdArray(v) THEN "numpy array"
    ELSE TypeName(v)

_get_simplified_type_description(v) ==
    IF IsList(v) THEN (IF v.items = <<>> THEN "empty list" ELSE "list")
    ELSE IF IsDict(v) THEN (IF v.items = <<>> THEN "empty dict" ELSE "dict")
    ELSE IF IsTuple(v) THEN (IF v.items = <<>> THEN "empty tuple" ELSE "tuple")
    ELSE IF NUMPY_AVAILABLE /\ IsNdArray(v) THEN "numpy array"
    ELSE TypeName(v)

\* variant: the first and last size are taken for the smallest and largest
_analyze_sizes_Unordered(sizes) ==
    IF sizes = <<>> THEN ""
    ELSE LET unique_sizes == {sizes[i] : i \in DOMAIN sizes}
         IN IF Cardinality(unique_sizes) = 1
            THEN "of size " \o ToString(CHOOSE size \in unique_sizes : TRUE) \o " each"
            ELSE "of variable size, from " \o ToString(sizes[1]) \o " to "
                     \o ToString(sizes[Len(sizes)])

_analyze_sizes(sizes) ==
    IF sizes = <<>> THEN ""
    ELSE LET unique_sizes == {sizes[i] : i \in DOMAIN sizes}
         IN IF Cardinality(unique_sizes) = 1
            THEN "of size " \o ToString(CHOOSE size \in unique_sizes : TRUE) \o " each"
            ELSE "of variable size, from " \o ToString(Min(sizes)) \o " to "
                     \o ToString(Max(sizes))

\* variant: the dims are joined by ","
ShapeStr_Comma(shape) == Join([i \in DOMAIN shape |-> ToString(shape[i])], ",")

\* "x".join(map(str, shape))
ShapeStr(shape) == Join([i \in DOMAIN shape |-> ToString(shape[i])], "x")

_analyze_numpy_array(v) ==
    IF Len(v.shape) = 1
    THEN "numpy array of shape (" \o ShapeStr(v.shape) \o ",) dtype " \o v.dtype
    ELSE "numpy array of shape (" \o ShapeStr(v.shape) \o ") dtype " \o v.dtype

_analyze_primitive(v) ==
    IF IsStr(v)
    THEN IF Len(v.s) > MaxShownStrLen
         THEN "string of length " \o ToString(Len(v.s))
         ELSE "string: '" \o v.s \o "'"
    ELSE TypeName(v) \o ": " \o PyStrOf(v)

_analyze_numpy_array_collection(arrays) ==
    IF ~NUMPY_AVAILABLE \/ arrays = <<>> THEN "no arrays"
    ELSE LET shapes == [i \in DOMAIN arrays |-> arrays[i].shape]
             dtypes == [i \in DOMAIN arrays |-> arrays[i].dtype]
             unique_shapes == {shapes[i] : i \in DOMAIN shapes}
             unique_dtypes == {dtypes[i] : i \in DOMAIN dtypes}
             dtype_str == IF Cardinality(unique_dtypes) = 1
                          THEN " dtype " \o (CHOOSE d \in unique_dtypes : TRUE)
                          ELSE ""
         IN IF Cardinality(unique_shapes) = 1
            THEN LET shape == CHOOSE sh \in unique_shapes : TRUE
                 IN IF Len(shape) = 1
                    THEN "numpy arrays of shape (" \o ToString(shape[1]) \o ",) each"
                             \o dtype_str
                    ELSE "numpy arrays of shape (" \o ShapeStr(shape) \o ") each"
                             \o dtype_str
            ELSE IF \A i \in DOMAIN shapes : Len(shapes[i]) = 1
                 THEN LET lens == [i \in DOMAIN shapes |-> shapes[i][1]]
                      IN "numpy arrays of variable shape 1-d, from ("
                             \o ToString(Min(lens)) \o ",) to ("
                             \o ToString(Max(lens)) \o ",)" \o dtype_str
                 ELSE "numpy arrays of variable shapes" \o dtype_str

\* variant: keys of mixed types get no description
_analyze_dict_keys_NoMixed(key_list) ==
    IF key_list = <<>> THEN ""
    ELSE IF \A i \in DOMAIN key_list : IsInt(key_list[i])
    THEN LET sorted_keys == Sorted(key_list)
             n == Len(sorted_keys)
         IN IF n > 1
            THEN IF \A i \in 2..n : IntVal(sorted_keys[i]) = IntVal(sorted_keys[i - 1]) + 1
                 THEN "sequential range " \o PyStrOf(sorted_keys[1]) \o " to "
                          \o PyStrOf(sorted_keys[n])
                 ELSE "integer range " \o PyStrOf(sorted_keys[1]) \o " to "
                          \o PyStrOf(sorted_keys[n])
            ELSE "single integer key " \o PyStrOf(sorted_keys[1])
    ELSE IF \A i \in DOMAIN key_list : IsStr(key_list[i])
    THEN IF Len(key_list) <= MaxListedKeys
         THEN "string keys: "
                  \o Join([i \in DOMAIN key_list |-> PyRepr(key_list[i])], ", ")
         ELSE "string keys (showing first 3): "
                  \o Join([i \in 1..ShownKeys |-> PyRepr(key_list[i])], ", ") \o ", ..."
    ELSE ""

_analyze_dict_keys(key_list) ==
    IF key_list = <<>> THEN ""
    ELSE IF \A i \in DOMAIN key_list : IsInt(key_list[i])
    THEN LET sorted_keys == Sorted(key_list)
             n == Len(sorted_keys)
         IN IF n > 1
            THEN IF \A i \in 2..n : IntVal(sorted_keys[i]) = IntVal(sorted_keys[i - 1]) + 1
                 THEN "sequential range " \o PyStrOf(sorted_keys[1]) \o " to "
                          \o PyStrOf(sorted_keys[n])
                 ELSE "integer range " \o PyStrOf(sorted_keys[1]) \o " to "
                          \o PyStrOf(sorted_keys[n])
            ELSE "single integer key " \o PyStrOf(sorted_keys[1])
    ELSE IF \A i \in DOMAIN key_list : IsStr(key_list[i])
    THEN IF Len(key_list) <= MaxListedKeys
         THEN "string keys: "
                  \o Join([i \in DOMAIN key_list |-> PyRepr(key_list[i])], ", ")
         ELSE "string keys (showing first 3): "
                  \o Join([i \in 1..ShownKeys |-> PyRepr(key_list[i])], ", ") \o ", ..."
    ELSE "mixed key types"

\* the entries of the "mixed types" line: f'{count} {typ}' per tally entry
MixedEntries(entries) ==
    Join([i \in DOMAIN entries |-> ToString(entries[i][2]) \o " " \o entries[i][1]], ", ")

\* "empty list".startswith("empty")
StartsWith(s, prefix) ==
    Len(s) >= Len(prefix) /\ SubSeq(s, 1, Len(prefix)) = prefix

_analyze_container_contents(items, maxdepth, current_depth) ==
    IF items = <<>> THEN ""
    ELSE LET item_descriptions ==
                 [i \in DOMAIN items |-> _get_simplified_type_description(items[i])]
             type_counts == Counter(item_descriptions)
         IN IF Len(type_counts) = 1
            THEN LET item_type == item_descriptions[1]
                 IN IF item_type = "numpy array"
                    THEN _analyze_numpy_array_collection(items)
                    ELSE IF StartsWith(item_type, "empty")
                    THEN item_type \o "s"
                    ELSE IF item_type \in {"list", "tuple", "dict"}
                    THEN LET sizes == [i \in DOMAIN items |-> PyLen(items[i])]
                         IN item_type \o "s " \o _analyze_sizes(sizes)
                    ELSE item_type \o " objects"
            ELSE "mixed types: " \o MixedEntries(most_common(type_counts))

_analyze_list(v, maxdepth, current_depth) ==
    IF v.items = <<>> THEN "empty list"
    ELSE LET length == Len(v.items)
             heading == "list with " \o ToString(length) \o " element" \o Plural(length)
             content_analysis ==
                 _analyze_container_contents(v.items, maxdepth, current_depth)
         IN IF content_analysis # ""
            THEN heading \o "\n" \o Connector \o content_analysis
            ELSE heading

_analyze_tuple(v, maxdepth, current_depth) ==
    IF v.items = <<>> THEN "empty tuple"
    ELSE LET length == Len(v.items)
             heading == "tuple with " \o ToString(length) \o " element" \o Plural(length)
             content_analysis ==
                 _analyze_container_contents(v.items, maxdepth, current_depth)
         IN IF content_analysis # ""
            THEN heading \o "\n" \o Connector \o content_analysis
            ELSE heading

\* variant: the values line is computed over the keys
_analyze_dict_OverKeys(v, maxdepth, current_depth) ==
    IF v.items = <<>> THEN "empty dict"
    ELSE LET length == Len(v.items)
             heading == "dict with " \o ToString(length) \o " element" \o Plural(length)
             key_analysis == _analyze_dict_keys(v.keys)
             with_keys == IF key_analysis # ""
                          THEN heading \o "\n" \o Connector \o "keys: " \o key_analysis
                          ELSE heading
             value_analysis ==
                 _analyze_container_contents(v.keys, maxdepth, current_depth)
             prefix == IF key_analysis # "" THEN Indent ELSE Connector
         IN IF value_analysis # ""
            THEN with_keys \o "\n" \o prefix \o "values: " \o value_analysis
            ELSE with_keys

_analyze_dict(v, maxdepth, current_depth) ==
    IF v.items = <<>> THEN "empty dict"
    ELSE LET length == Len(v.items)
             heading == "dict with " \o ToString(length) \o " element" \o Plural(length)
             key_analysis == _analyze_dict_keys(v.keys)
             with_keys == IF key_analysis # ""
                          THEN heading \o "\n" \o Connector \o "keys: " \o key_analysis
                          ELSE heading
             value_analysis ==
                 _analyze_container_contents(v.items, maxdepth, current_depth)
             prefix == IF key_analysis # "" THEN Indent ELSE Connector
         IN IF value_analysis # ""
            THEN with_keys \o "\n" \o prefix \o "values: " \o value_analysis
            ELSE with_keys

\* variant: the depth check is strict
Dispatch_StrictDepth(v, maxdepth, current_depth) ==
    IF current_depth > maxdepth THEN "max depth reached"
    ELSE IF NUMPY_AVAILABLE /\ IsNdArray(v) THEN "_analyze_numpy_array"
    ELSE IF IsList(v) THEN "_analyze_list"
    ELSE IF IsTuple(v) THEN "_analyze_tuple"
    ELSE IF IsDict(v) THEN "_analyze_dict"
    ELSE IF IsPrimitive(v) THEN "_analyze_primitive"
    ELSE "object"

\* the branch of littleeye's if/elif chain that handles v
Dispatch(v, maxdepth, current_depth) ==
    IF current_depth >= maxdepth THEN "max depth reached"
    ELSE IF NUMPY_AVAILABLE /\ IsNdArray(v) THEN "_analyze_numpy_array"
    ELSE IF IsList(v) THEN "_analyze_list"
    ELSE IF IsTuple(v) THEN "_analyze_tuple"
    ELSE IF IsDict(v) THEN "_analyze_dict"
    ELSE IF IsPrimitive(v) THEN "_analyze_primitive"
    ELSE "object"

littleeye(v, maxdepth, current_depth) ==
    LET branch == Dispatch(v, maxdepth, current_depth)
    IN CASE branch = "max depth reached" -> TypeName(v) \o " (max depth reached)"
         [] branch = "_analyze_numpy_array" -> _analyze_numpy_array(v)
         [] branch = "_analyze_list" -> _analyze_list(v, maxdepth, current_depth)
         [] branch = "_analyze_tuple" -> _analyze_tuple(v, maxdepth, current_depth)
         [] branch = "_analyze_dict" -> _analyze_dict(v, maxdepth, current_depth)
         [] branch = "_analyze_primitive" -> _analyze_primitive(v)
         [] OTHER -> TypeName(v) \o " object"

(***************************************************************************)
(* The inputs tried.                                                       *)
(***************************************************************************)
\* [1] * n
Ones(n) == [i \in 1..n |-> PyInt(1)]
\* the keys 1 .. n, and the keys 'k1' .. 'kn'
IntKeys(n) == [i \in 1..n |-> PyInt(i)]
StrKeys(n) == [i \in 1..n |-> PyStr("k" \o ToString(i))]

LongStr == PyStr("123456789012345678901234567890123456789012345678901")
FiftyStr == PyStr("12345678901234567890123456789012345678901234567890")

Prims == {PyInt(1), PyInt(-7), PyBool(TRUE), PyBool(FALSE), PyFloat("0.5"),
          PyStr("hello"), PyStr(""), FiftyStr, LongStr}
Opaques == {PyOther("NoneType"), PyOther("set")}

Dtypes == {"int64", "float64"}
Shapes == {<<>>, <<2, 3>>} \cup {<<n>> : n \in 1..MaxDim}
Arrays == {NdArray(sh, dt) : sh \in Shapes, dt \in Dtypes}

\* containers nested d levels deep, one child per level
RECURSIVE Chains(_)
Chains(d) ==
    IF d = 0 THEN {PyInt(1)}
    ELSE UNION {{PyList(<<c>>), PyTuple(<<c>>), PyDict(<<PyInt(1)>>, <<c>>)} :
                    c \in Chains(d - 1)}

\* every container kind over a sequence of children
Containers(items) ==
    {PyList(items), PyTuple(items),
     PyDict(IntKeys(Len(items)), items), PyDict(StrKeys(Len(items)), items)}

\* (A) every shape class, under every pair of depths
FewChildren == {PyInt(1), PyList(<<>>), PyList(Ones(1)), NdArray(<<3>>, "int64")}
ShapeInput(v) ==
    \/ v \in Prims \cup Opaques \cup Arrays
    \/ \E d \in 1..(MaxDepth + 1) : v \in Chains(d)
    \/ \E n \in 0..MaxLen : \E items \in [1..n -> FewChildren] : v \in Containers(items)
Depths == (-1)..MaxDepth

\* (A') every container kind over children of every kind
MixedChildren ==
    {PyInt(1), PyStr("hello"), PyOther("NoneType"), NdArray(<<3>>, "int64"),
     PyList(<<>>), PyList(Ones(1)), PyTuple(<<>>), PyTuple(Ones(2)),
     PyDict(<<>>, <<>>), PyDict(IntKeys(1), Ones(1)), PyList(<<PyList(Ones(1))>>)}
MixedInput(v) ==
    \E n \in 0..MaxLen : \E items \in [1..n -> MixedChildren] : v \in Containers(items)

\* (B) lists whose children carry few labels, many times
TallyChildren ==
    {PyInt(1), PyStr("hello"), PyList(<<>>), PyList(Ones(3)), PyTuple(Ones(2))}
TallyInput(v) ==
    \E n \in 1..MaxItems : \E items \in [1..n -> TallyChildren] : v = PyList(items)

\* (C) containers of arrays
ArrayInput(v) ==
    \E n \in 1..MaxArrays : \E items \in [1..n -> Arrays] :
        v \in {PyList(items), PyDict(IntKeys(n), items)}

\* (D) dicts by their keys; Python keeps one of two equal keys (1 == True)
KeyUniverse ==
    {PyInt(n) : n \in (-1)..MaxKey} \cup {PyBool(TRUE), PyStr("a"), PyStr("b"),
                                          PyFloat("1.5")}
PyEq(a, b) == a = b \/ (IsInt(a) /\ IsInt(b) /\ IntVal(a) = IntVal(b))
KeyInput(v) ==
    \/ \E n \in 1..MaxKeys : \E ks \in [1..n -> KeyUniverse] :
           /\ \A i, j \in 1..n : i < j => ~PyEq(ks[i], ks[j])
           /\ \E x \in {PyInt(1), PyStr("a")} : v = PyDict(ks, [i \in 1..n |-> x])
    \/ \E n \in 1..MaxStrKeys : v = PyDict(StrKeys(n), Ones(n))

\* (E) containers of containers of one kind, by their sizes
Sized(kind, size) ==
    CASE kind = "list" -> PyList(Ones(size))
      [] kind = "tuple" -> PyTuple(Ones(size))
      [] OTHER -> PyDict(IntKeys(size), Ones(size))
SizeInput(v) ==
    \E n \in 1..(MaxLen + 1) : \E sizes \in [1..n -> 1..MaxSize] :
        \E kind \in {"list", "tuple", "dict"} :
            v \in Containers([i \in 1..n |-> Sized(kind, sizes[i])])

\* a value that is, or holds, a numpy array
RECURSIVE HoldsArray(_)
HoldsArray(v) ==
    \/ IsNdArray(v)
    \/ /\ v.kind \in {"list", "tuple", "dict"}
       /\ \E i \in DOMAIN v.items : HoldsArray(v.items[i])

\* the default of the max_depth parameter
DefaultMaxDepth == 3

(***************************************************************************)
(* The state machine: one call of littleeye.                               *)
(***************************************************************************)
Init ==
    /\ pc = "call"
    /\ result = ""
    /\ analyzer = ""
    /\ \/ /\ ShapeInput(obj)
          /\ max_depth \in Depths
          /\ _current_depth \in Depths
          /\ NUMPY_AVAILABLE \in BOOLEAN
          \* without numpy there are no arrays
          /\ NUMPY_AVAILABLE \/ ~HoldsArray(obj)
       \/ /\ \/ MixedInput(obj)
             \/ TallyInput(obj)
             \/ ArrayInput(obj)
             \/ KeyInput(obj)
             \/ SizeInput(obj)
          /\ max_depth = DefaultMaxDepth
          /\ _current_depth = 0
          /\ NUMPY_AVAILABLE = TRUE

\* littleeye(obj, max_depth, _current_depth) runs and returns
Call ==
    /\ pc = "call"
    /\ pc' = "return"
    /\ analyzer' = Dispatch(obj, max_depth, _current_depth)
    /\ result' = littleeye(obj, max_depth, _current_depth)
    /\ UNCHANGED <<NUMPY_AVAILABLE, obj, max_depth, _current_depth>>

Next == Call

Spec == Init /\ [][Next]_vars


(***************************************************************************)
(* Vocabulary of the properties.                                           *)
(***************************************************************************)
Returned == pc = "return"
\* the call returned and the depth check let the value through
Inspected == Returned /\ _current_depth < max_depth
IsContainer(v) == v.kind \in {"list", "tuple", "dict"}

\* the lines of a string, split at "\n"
RECURSIVE LinesOf(_)
LinesOf(s) ==
    IF \E i \in 1..Len(s) : SubSeq(s, i, i) = "\n"
    THEN LET cut == CHOOSE i \in 1..Len(s) :
                        /\ SubSeq(s, i, i) = "\n"
                        /\ \A j \in 1..(i - 1) : SubSeq(s, j, j) # "\n"
         IN <<SubSeq(s, 1, cut - 1)>> \o LinesOf(SubSeq(s, cut + 1, Len(s)))
    ELSE <<s>>

Contains(s, sub) ==
    \E i \in 1..(Len(s) - Len(sub) + 1) : SubSeq(s, i, i + Len(sub) - 1) = sub

\* the text of the content line of a summarized container: what follows the
\* connector (list, tuple) or the "values: " label (dict); "" if there is none
ContentText ==
    LET lines == LinesOf(result)
        at == IF IsDict(obj) THEN 3 ELSE 2
        skip == IF IsDict(obj) THEN Len(Indent \o "values: ") ELSE Len(Connector)
    IN IF Len(lines) < at THEN ""
       ELSE SubSeq(lines[at], skip + 1, Len(lines[at]))

\* the labels of the children of the summarized container, in order
ChildLabels ==
    [i \in DOMAIN obj.items |-> _get_simplified_type_description(obj.items[i])]
LabelSet == {ChildLabels[i] : i \in DOMAIN ChildLabels}
CountOfLabel(l) == Cardinality({i \in DOMAIN ChildLabels : ChildLabels[i] = l})
FirstIndexOf(l) ==
    CHOOSE i \in DOMAIN ChildLabels :
        ChildLabels[i] = l /\ \A j \in 1..(i - 1) : ChildLabels[j] # l
\* a comes before b: more frequent, or as frequent and seen first
ComesBefore(a, b) ==
    \/ CountOfLabel(a) > CountOfLabel(b)
    \/ CountOfLabel(a) = CountOfLabel(b) /\ FirstIndexOf(a) < FirstIndexOf(b)
\* the label with exactly r - 1 labels before it
LabelAtRank(r) ==
    CHOOSE l \in LabelSet : Cardinality({m \in LabelSet : ComesBefore(m, l)}) = r - 1
ExpectedMixedLine ==
    "mixed types: "
      \o Join([r \in 1..Cardinality(LabelSet) |->
                  ToString(CountOfLabel(LabelAtRank(r))) \o " " \o LabelAtRank(r)], ", ")

RECURSIVE SumCounts(_)
SumCounts(entries) ==
    IF entries = <<>> THEN 0 ELSE entries[1][2] + SumCounts(Tail(entries))

\* some container lies d levels below v (v itself at level 0)
RECURSIVE ContainerAtLevel(_, _)
ContainerAtLevel(v, d) ==
    /\ IsContainer(v)
    /\ \/ d = 0
       \/ \E i \in DOMAIN v.items : ContainerAtLevel(v.items[i], d - 1)

(***************************************************************************)
(* C1. When _current_depth >= max_depth at entry, whatever the value, the  *)
(* result is exactly "<type name> (max depth reached)" and no analyzer     *)
(* (array, list, tuple, dict, primitive) has run.                          *)
(***************************************************************************)
C1_DepthReachedPlaceholder ==
    (Returned /\ _current_depth >= max_depth) =>
        /\ result = TypeName(obj) \o " (max depth reached)"
        /\ analyzer = "max depth reached"

C1_Witness ==
    /\ Returned
    /\ _current_depth = max_depth
    /\ IsDict(obj) /\ Len(obj.items) = 2
    /\ result = "dict (max depth reached)"

(***************************************************************************)
(* C2. In a call started at depth 0 with max_depth >= 1, a container       *)
(* nested max_depth levels below the top-level value is reported with the  *)
(* depth-exhausted placeholder.                                            *)
(***************************************************************************)
C2_NestedContainerPlaceholder ==
    (Returned /\ _current_depth = 0 /\ max_depth >= 1
       /\ ContainerAtLevel(obj, max_depth)) =>
        Contains(result, "(max depth reached)")

(***************************************************************************)
(* C3. Every call returns a non-empty string; a value let through by the   *)
(* depth check is handled by the analyzer of its shape class (array, list, *)
(* tuple, dict, primitive), and a value of no such class yields exactly    *)
(* "<type name> object".                                                   *)
(***************************************************************************)
C3_TotalDispatch ==
    /\ Returned => Len(result) > 0
    /\ Inspected =>
         /\ obj.kind = "ndarray" =>
              analyzer = (IF NUMPY_AVAILABLE THEN "_analyze_numpy_array" ELSE "object")
         /\ obj.kind = "list" => analyzer = "_analyze_list"
         /\ obj.kind = "tuple" => analyzer = "_analyze_tuple"
         /\ obj.kind = "dict" => analyzer = "_analyze_dict"
         /\ obj.kind \in {"int", "float", "str", "bool"} =>
              analyzer = "_analyze_primitive"
         /\ obj.kind = "other" =>
              analyzer = "object" /\ result = obj.tname \o " object"

C3_Witness ==
    /\ Inspected
    /\ obj = PyOther("NoneType")
    /\ result = "NoneType object"

(***************************************************************************)
(* C4. A container whose children carry two or more distinct labels has    *)
(* the content line "mixed types: " followed by one "<count> <label>"      *)
(* entry per distinct label, joined by ", ", by descending count, ties in  *)
(* order of first appearance; the counts sum to the number of children.    *)
(***************************************************************************)
C4_MixedTypesOrder ==
    (Inspected /\ IsContainer(obj) /\ Cardinality(LabelSet) >= 2) =>
        /\ ContentText = ExpectedMixedLine
        /\ SumCounts(most_common(Counter(ChildLabels))) = Len(obj.items)

C4_Witness ==
    /\ Inspected
    /\ obj = PyList(<<PyInt(1), PyInt(1), PyInt(1), PyStr("hello"), PyList(Ones(3))>>)
    /\ result = "list with 5 elements\n+- mixed types: 3 int, 1 str, 1 list"


(***************************************************************************)
(* C5. A container whose children are all numpy arrays has one content     *)
(* line chosen by the set of child shapes: one shape gives "... arrays of  *)
(* shape (<shape>) each" (1-d written "(L,)", otherwise the dims joined by *)
(* "x"); several shapes, all 1-d, give "... arrays of variable shape 1-d,  *)
(* from (<min>,) to (<max>,)"; otherwise "... arrays of variable shapes".  *)
(* " dtype <type>" is appended exactly when all children share one dtype.  *)
(***************************************************************************)
ChildShapes == {obj.items[i].shape : i \in DOMAIN obj.items}
ChildDtypes == {obj.items[i].dtype : i \in DOMAIN obj.items}
ChildAxisLens == {sh[1] : sh \in ChildShapes}
ShapeText(sh) ==
    IF Len(sh) = 1 THEN ToString(sh[1]) \o ","
    ELSE Join([i \in DOMAIN sh |-> ToString(sh[i])], "x")
ExpectedArraysLine ==
    LET suffix == IF \E d \in ChildDtypes : ChildDtypes = {d}
                  THEN " dtype " \o (CHOOSE d \in ChildDtypes : TRUE)
                  ELSE ""
        body == IF \E sh \in ChildShapes : ChildShapes = {sh}
                THEN "shape (" \o ShapeText(CHOOSE sh \in ChildShapes : TRUE) \o ") each"
                ELSE IF \A sh \in ChildShapes : Len(sh) = 1
                THEN "variable shape 1-d, from ("
                         \o ToString(CHOOSE m \in ChildAxisLens :
                                         \A n \in ChildAxisLens : m <= n)
                         \o ",) to ("
                         \o ToString(CHOOSE m \in ChildAxisLens :
                                         \A n \in ChildAxisLens : m >= n)
                         \o ",)"
                ELSE "variable shapes"
    IN "numpy arrays of " \o body \o suffix

C5_ArrayCollectionLine ==
    (Inspected /\ NUMPY_AVAILABLE /\ IsContainer(obj) /\ obj.items # <<>>
       /\ \A i \in DOMAIN obj.items : IsNdArray(obj.items[i])) =>
        ContentText = ExpectedArraysLine

C5_Witness ==
    /\ Inspected
    /\ obj = PyList(<<NdArray(<<3>>, "int64"), NdArray(<<3>>, "int64"),
                      NdArray(<<3>>, "int64")>>)
    /\ result = "list with 3 elements\n+- numpy arrays of shape (3,) each dtype int64"

(***************************************************************************)
(* C6. A non-empty dict whose keys are all integers: one key k gives       *)
(* "single integer key k"; two or more keys that fill the whole range from *)
(* the smallest to the largest give "sequential range <min> to <max>"; two *)
(* or more keys with a gap give "integer range <min> to <max>".  The       *)
(* summary depends on the set of keys only, not on their insertion order.  *)
(***************************************************************************)
KeyValues == {IntVal(obj.keys[i]) : i \in DOMAIN obj.keys}
MinKey == CHOOSE m \in KeyValues : \A n \in KeyValues : m <= n
MaxKeyOf == CHOOSE m \in KeyValues : \A n \in KeyValues : m >= n
\* the text of the key whose value is n
KeyText(n) == PyStrOf(obj.keys[CHOOSE i \in DOMAIN obj.keys : IntVal(obj.keys[i]) = n])
ExpectedIntKeysLine ==
    IF Len(obj.keys) = 1 THEN "single integer key " \o KeyText(MinKey)
    ELSE IF KeyValues = MinKey..MaxKeyOf
    THEN "sequential range " \o KeyText(MinKey) \o " to " \o KeyText(MaxKeyOf)
    ELSE "integer range " \o KeyText(MinKey) \o " to " \o KeyText(MaxKeyOf)

C6_IntegerKeyPattern ==
    (Inspected /\ IsDict(obj) /\ obj.items # <<>>
       /\ \A i \in DOMAIN obj.keys : IsInt(obj.keys[i])) =>
        LinesOf(result)[2] = Connector \o "keys: " \o ExpectedIntKeysLine

C6_Witness ==
    /\ Inspected
    /\ IsDict(obj)
    /\ obj.keys = <<PyInt(3), PyInt(1), PyInt(2)>>
    /\ LinesOf(result)[2] = "+- keys: sequential range 1 to 3"

(***************************************************************************)
(* C7. A non-empty dict is summarized as the heading "dict with N          *)
(* element(s)", then the keys line prefixed with the connector, then the   *)
(* values line, computed over the dict's values, prefixed with three       *)
(* spaces when a keys line was printed and with the connector otherwise.   *)
(***************************************************************************)
C7_DictLayout ==
    (Inspected /\ IsDict(obj) /\ obj.items # <<>>) =>
        LET N == Len(obj.items)
            keys_summary == _analyze_dict_keys(obj.keys)
            values_summary ==
                _analyze_container_contents(obj.items, max_depth, _current_depth)
            heading == "dict with " \o ToString(N)
                           \o (IF N = 1 THEN " element" ELSE " elements")
            keys_line == IF keys_summary = "" THEN <<>>
                         ELSE <<Connector \o "keys: " \o keys_summary>>
            values_line ==
                IF values_summary = "" THEN <<>>
                ELSE <<(IF keys_summary = "" THEN Connector ELSE Indent)
                           \o "values: " \o values_summary>>
        IN LinesOf(result) = <<heading>> \o keys_line \o values_line

C7_Witness ==
    /\ Inspected
    /\ obj = PyDict(StrKeys(2), <<PyList(<<>>), PyDict(<<>>, <<>>)>>)
    /\ result = "dict with 2 elements\n+- keys: string keys: 'k1', 'k2'\n"
                    \o "   values: mixed types: 1 empty list, 1 empty dict"

(***************************************************************************)
(* C8. An empty and a non-empty container of the same kind among the       *)
(* children get different labels, so a container holding both is rendered  *)
(* as "mixed types: ...", with an entry for each, never as homogeneous.    *)
(***************************************************************************)
C8_EmptinessInLabel ==
    (Inspected /\ IsContainer(obj)) =>
        \A i, j \in DOMAIN obj.items :
            (/\ IsContainer(obj.items[i])
             /\ obj.items[i].kind = obj.items[j].kind
             /\ obj.items[i].items = <<>>
             /\ obj.items[j].items # <<>>) =>
                /\ ChildLabels[i] = "empty " \o obj.items[i].kind
                /\ ChildLabels[j] = obj.items[j].kind
                /\ StartsWith(ContentText, "mixed types: ")
                /\ Contains(ContentText,
                            ToString(CountOfLabel(ChildLabels[i])) \o " " \o ChildLabels[i])
                /\ \/ StartsWith(ContentText, "mixed types: "
                          \o ToString(CountOfLabel(ChildLabels[j])) \o " " \o ChildLabels[j])
                   \/ Contains(ContentText,
                          ", " \o ToString(CountOfLabel(ChildLabels[j])) \o " "
                               \o ChildLabels[j])

C8_Witness ==
    /\ Inspected
    /\ obj = PyList(<<PyList(<<>>), PyList(Ones(3))>>)
    /\ result = "list with 2 elements\n+- mixed types: 1 empty list, 1 list"

(***************************************************************************)
(* C9. A value let through by the depth check: an empty list, tuple or     *)
(* dict renders as exactly "empty <kind>"; a non-empty one of length N has *)
(* the first line "<kind> with N element" when N = 1 and "<kind> with N    *)
(* elements" when N >= 2.                                                  *)
(***************************************************************************)
C9_EmptyAndHeading ==
    (Inspected /\ IsContainer(obj)) =>
        LET N == Len(obj.items)
        IN /\ N = 0 => result = "empty " \o obj.kind
           /\ N = 1 => LinesOf(result)[1] = obj.kind \o " with 1 element"
           /\ N >= 2 =>
                LinesOf(result)[1] = obj.kind \o " with " \o ToString(N) \o " elements"

C9_Witness ==
    /\ Inspected
    /\ obj = PyTuple(<<PyStr("hello")>>)
    /\ LinesOf(result)[1] = "tuple with 1 element"

(***************************************************************************)
(* C10. A container whose children are all non-empty lists, all non-empty  *)
(* tuples or all non-empty dicts has the content line "<label>s of size S  *)
(* each" when every child has S elements, and "<label>s of variable size,  *)
(* from <min> to <max>" otherwise, min and max being the smallest and the  *)
(* largest child size, with 1 <= min < max.                                *)
(***************************************************************************)
ChildSizes == {Len(obj.items[i].items) : i \in DOMAIN obj.items}
MinSize == CHOOSE m \in ChildSizes : \A n \in ChildSizes : m <= n
MaxSizeOf == CHOOSE m \in ChildSizes : \A n \in ChildSizes : m >= n

C10_NestedContainerSizes ==
    (Inspected /\ IsContainer(obj) /\ obj.items # <<>>
       /\ \E label \in {"list", "tuple", "dict"} : LabelSet = {label}) =>
        LET label == ChildLabels[1]
        IN IF MinSize = MaxSizeOf
           THEN ContentText = label \o "s of size " \o ToString(MinSize) \o " each"
           ELSE /\ ContentText = label \o "s of variable size, from "
                                     \o ToString(MinSize) \o " to " \o ToString(MaxSizeOf)
                /\ 1 <= MinSize
                /\ MinSize < MaxSizeOf

C10_Witness ==
    /\ Inspected
    /\ obj = PyList(<<PyList(Ones(3)), PyList(Ones(1)), PyList(Ones(2))>>)
    /\ result = "list with 3 elements\n+- lists of variable size, from 1 to 3"


(***************************************************************************)
(* C11. For a non-empty container the key summary and the content summary  *)
(* are never empty: a non-empty list or tuple let through by the depth     *)
(* check yields exactly a heading and one connector-prefixed content line; *)
(* a non-empty dict yields exactly a heading, a connector-prefixed "keys: "*)
(* line and a "values: " line indented with three spaces.  No call returns *)
(* a connector-prefixed "values: " line or the "no arrays" summary.        *)
(***************************************************************************)
C11_SummariesNeverEmpty ==
    LET lines == LinesOf(result)
    IN /\ (Inspected /\ IsContainer(obj) /\ obj.items # <<>>) =>
            /\ _analyze_container_contents(obj.items, max_depth, _current_depth) # ""
            /\ ContentText # ""
            /\ ~IsDict(obj) =>
                 /\ Len(lines) = 2
                 /\ lines[1] = obj.kind \o " with " \o ToString(Len(obj.items))
                                   \o " element" \o (IF Len(obj.items) = 1 THEN "" ELSE "s")
                 /\ StartsWith(lines[2], Connector)
                 /\ Len(lines[2]) > Len(Connector)
            /\ IsDict(obj) =>
                 /\ _analyze_dict_keys(obj.keys) # ""
                 /\ Len(lines) = 3
                 /\ StartsWith(lines[2], Connector \o "keys: ")
                 /\ Len(lines[2]) > Len(Connector \o "keys: ")
                 /\ StartsWith(lines[3], Indent \o "values: ")
                 /\ Len(lines[3]) > Len(Indent \o "values: ")
       /\ Returned =>
            \A i \in DOMAIN lines :
                /\ ~StartsWith(lines[i], Connector \o "values: ")
                /\ lines[i] \notin {Connector \o "no arrays",
                                    Indent \o "values: no arrays"}

C11_Witness ==
    /\ Inspected
    /\ obj = PyDict(<<PyInt(1), PyStr("a")>>, <<PyInt(1), PyInt(1)>>)
    /\ result = "dict with 2 elements\n+- keys: mixed key types\n   values: int objects"


====
